---- MODULE Spec2Model ----
(***************************************************************************)
(* Model of the TRNG library for Arduino UNO R4 (src/src/trng.c, trng.h).  *)
(*                                                                         *)
(* The library is single-threaded and synchronous.  A caller invokes one   *)
(* API function at a time; the SCE5 peripheral (HW_SCE_McuSpecificInit,    *)
(* HW_SCE_RNG_Read) is an external collaborator whose outcome is chosen    *)
(* nondeterministically.  The two loops of the library (the rejection loop *)
(* of trng_randomRange and the chunk loop of trng_fillRandom) are modelled *)
(* one iteration per step; every other function is one atomic step.        *)
(*                                                                         *)
(* Widths are scaled: a byte has ByteBits bits, uint8_t is one byte,       *)
(* uint16_t two bytes and uint32_t four bytes, so that all unsigned        *)
(* arithmetic wraps exactly as in the C code, modulo a smaller power of 2. *)
(***************************************************************************)
EXTENDS Integers, Sequences, FiniteSets

\* ------------------------------------------------------------------ bounds

\* Bits per byte (8 on the target; scaled down).
ByteBits == 1

\* Arguments min and hardware words are drawn from the MaxArg + 1 lowest and
\* the MaxArg + 1 highest values of the word.
MaxArg == 2

\* Largest len passed to trng_fillRandom.
MaxLen == 50

\* Largest number of draws followed inside one trng_randomRange call.
MaxDraws == 3

\* ------------------------------------------------------- program constants

TRNG_OK == 0

TRNG_NOK == 1

\* sizeof(uint32_t), sizeof(uint16_t), sizeof(uint8_t) in bytes.
BytesPerWord == 4

BytesPerHalf == 2

\* The chunk size of trng_fillRandom: 16 bytes per block.
BlockSize == 16

Pow32 == 2 ^ (BytesPerWord * ByteBits)

Pow16 == 2 ^ (BytesPerHalf * ByteBits)

Pow8 == 2 ^ ByteBits

UINT32_MAX == Pow32 - 1

\* Unsigned 32-bit wrap-around of an arithmetic result.
U32(x) == x % Pow32

\* Content of caller memory that the call has not written.
Untouched == 0 - 1

\* Capacity of the caller's byte buffer: one byte more than the largest len.
BufSize == MaxLen + 1

\* ------------------------------------------------------ the entropy source

\* Values a hardware word (and the argument min) is drawn from.
EdgeWords == (0 .. MaxArg) \cup ((UINT32_MAX - MaxArg) .. UINT32_MAX)

\* A 128-bit block (uint32_t buf[4U]): four words, the last three derived from the first so
\* that the four words (and their bytes) differ.
MkBlock(v) == << v, U32(UINT32_MAX - v), U32((5 * v) + 3), U32((3 * v) + 6) >>

HwBlocks == { MkBlock(v) : v \in EdgeWords }

\* Values the argument min is drawn from (max is any word): the edge words
\* and the 5 of the documented examples sample(5, 5) and sample(5, 3).
MinArgs == EdgeWords \cup { 5 }

\* Outcomes of HW_SCE_RNG_Read(dst): FSP_SUCCESS with a block stored in dst,
\* or an error; on error dst is left as it was (<< >>) or holds some block.
HwOutcomes ==
    [ ok : {TRUE}, block : HwBlocks ] \cup [ ok : {FALSE}, block : HwBlocks \cup { << >> } ]

\* What one call's log keeps of an outcome: the data of a failed read is
\* never used by the library beyond the destination it was stored in.
LogEntry(hw) == IF hw.ok THEN hw ELSE [ ok |-> FALSE, block |-> << >> ]

\* --------------------------------------------------------------- the state

VARIABLES
    initialized,  \* static uint8_t _initialized
    beganOk,      \* history: some trng_begin call has returned TRNG_OK
    pc,           \* "idle", "range_loop", "fill_loop", "done"
    op,           \* the function being executed / that just returned
    outPtr,       \* the out / buf pointer argument is non-null
    min,          \* trng_randomRange argument
    max,          \* trng_randomRange argument
    len,          \* trng_fillRandom argument
    out,          \* *out of the scalar functions (Untouched: not written)
    outBlock,     \* out[0..3] of trng_read128 (<< >>: not written)
    buf,          \* buf[0..BufSize-1] of trng_fillRandom
    result,       \* the local "result" / the value returned
    hwLog,        \* the HW_SCE_RNG_Read calls made by this call, in order
    draws,        \* history: trng_random32 calls made by the rejection loop
    i,            \* trng_fillRandom: size_t i
    found,        \* trng_randomRange: uint8_t found
    err           \* trng_randomRange: uint8_t err

vars ==
    << initialized, beganOk, pc, op, outPtr, min, max, len, out, outBlock, buf,
       result, hwLog, draws, i, found, err >>

EmptyBuf == [ k \in 1 .. BufSize |-> Untouched ]

Init ==
    /\ initialized = 0
    /\ beganOk = FALSE
    /\ pc = "idle"
    /\ op = "none"
    /\ outPtr = FALSE
    /\ min = 0
    /\ max = 0
    /\ len = 0
    /\ out = Untouched
    /\ outBlock = << >>
    /\ buf = EmptyBuf
    /\ result = TRNG_NOK
    /\ hwLog = << >>
    /\ draws = 0
    /\ i = 0
    /\ found = 0
    /\ err = 0

\* ------------------------------------------------------- the pure functions

\* Faulty variant: the read is made without the readiness gate.
trng_read128_NoGate(init, ptr, hw) ==
    IF ptr
    THEN [ result |-> IF hw.ok THEN TRNG_OK ELSE TRNG_NOK,
           called |-> TRUE,
           block  |-> hw.block ]
    ELSE [ result |-> TRNG_NOK, called |-> FALSE, block |-> << >> ]

\* trng_read128(out) with the outcome hw of the hardware read it may make.
\* called: HW_SCE_RNG_Read was called; block: what out[0..3] holds after the
\* call (<< >>: unchanged).
trng_read128(init, ptr, hw) ==
    IF (init # 0) /\ ptr
    THEN [ result |-> IF hw.ok THEN TRNG_OK ELSE TRNG_NOK,
           called |-> TRUE,
           block  |-> hw.block ]
    ELSE [ result |-> TRNG_NOK, called |-> FALSE, block |-> << >> ]

\* Faulty variant: the draw is taken from buf[1U] instead of buf[0U].
trng_random32_Word1(init, ptr, hw) ==
    IF ptr
    THEN LET r == trng_read128(init, TRUE, hw)
         IN  IF r.result = TRNG_OK
             THEN [ result |-> TRNG_OK, called |-> r.called, value |-> r.block[2] ]
             ELSE [ result |-> TRNG_NOK, called |-> r.called, value |-> Untouched ]
    ELSE [ result |-> TRNG_NOK, called |-> FALSE, value |-> Untouched ]

\* trng_random32(out): reads a block into a local buf and stores buf[0].
trng_random32(init, ptr, hw) ==
    IF ptr
    THEN LET r == trng_read128(init, TRUE, hw)
         IN  IF r.result = TRNG_OK
             THEN [ result |-> TRNG_OK, called |-> r.called, value |-> r.block[1] ]
             ELSE [ result |-> TRNG_NOK, called |-> r.called, value |-> Untouched ]
    ELSE [ result |-> TRNG_NOK, called |-> FALSE, value |-> Untouched ]

\* (uint16_t)(val & 0xFFFFU)
Low16(val) == val % Pow16

\* (uint8_t)(val & 0xFFU)
Low8(val) == val % Pow8

\* trng_random16(out): a local trng_random32 draw, truncated.
trng_random16(init, ptr, hw) ==
    IF ptr
    THEN LET r == trng_random32(init, TRUE, hw)
         IN  IF r.result = TRNG_OK
             THEN [ result |-> TRNG_OK, called |-> r.called, value |-> Low16(r.value) ]
             ELSE [ result |-> TRNG_NOK, called |-> r.called, value |-> Untouched ]
    ELSE [ result |-> TRNG_NOK, called |-> FALSE, value |-> Untouched ]

\* trng_random8(out): a local trng_random32 draw, truncated.
trng_random8(init, ptr, hw) ==
    IF ptr
    THEN LET r == trng_random32(init, TRUE, hw)
         IN  IF r.result = TRNG_OK
             THEN [ result |-> TRNG_OK, called |-> r.called, value |-> Low8(r.value) ]
             ELSE [ result |-> TRNG_NOK, called |-> r.called, value |-> Untouched ]
    ELSE [ result |-> TRNG_NOK, called |-> FALSE, value |-> Untouched ]

\* Faulty variant: the order of min and max is not checked.
RangeArgsOk_NoOrder(ptr, mn, mx) == ptr

\* Faulty variant: the header's contract, min < max.
RangeArgsOk_Strict(ptr, mn, mx) == ptr /\ (mn < mx)

\* if ((out != NULL) && (min <= max))
RangeArgsOk(ptr, mn, mx) == ptr /\ (mn <= mx)

\* Faulty variant: the + 1U is forgotten.
RangeOf_NoPlusOne(mn, mx) == U32(mx - mn)

\* Faulty variant: the range is computed in a wider type and does not wrap.
RangeOf_NoWrap(mn, mx) == (mx - mn) + 1

\* uint32_t range = (max - min) + 1U;
RangeOf(mn, mx) == U32(U32(mx - mn) + 1)

\* Faulty variant: UINT32_MAX % range, the + 1U forgotten.
Threshold_NoPlusOne(range) == U32(UINT32_MAX - range) % range

\* uint32_t threshold = (UINT32_MAX - range + 1U) % range;   (range # 0)
Threshold(range) == U32(U32(UINT32_MAX - range) + 1) % range

\* if (val >= threshold)
Accepted(val, threshold) == val >= threshold

\* *out = min + (val % range);
RangeValue(mn, val, range) == U32(mn + (val % range))

\* Faulty variant: a failed draw is retried.
RangeLoopCond_Retry(fnd, er) == fnd = 0

\* while ((found == 0U) && (err == 0U))
RangeLoopCond(fnd, er) == (fnd = 0) /\ (er = 0)

\* (const uint8_t *)tmp: the bytes of a block in memory order.  The RA4M1
\* (Cortex-M4) is little-endian: byte j of the block is byte j % 4 of word
\* j / 4, least significant byte first.
SrcByte(block, j) ==
    (block[(j \div BytesPerWord) + 1] \div (Pow8 ^ (j % BytesPerWord))) % Pow8

\* Faulty variant: every chunk is a full block.
Chunk_Full(ln, ix) == BlockSize

\* size_t chunk = ((len - i) < 16U) ? (len - i) : 16U;
Chunk(ln, ix) == IF (ln - ix) < BlockSize THEN ln - ix ELSE BlockSize

\* for (j = 0U; j < chunk; j++) { buf[i] = src[j]; i++; }
RECURSIVE CopyLoop(_, _, _, _, _)
CopyLoop(b, ix, block, j, chunk) ==
    IF j < chunk
    THEN CopyLoop([ b EXCEPT ![ix + 1] = SrcByte(block, j) ], ix + 1, block, j + 1, chunk)
    ELSE [ buf |-> b, i |-> ix ]

\* Faulty variant: the loop goes on after a failed read.
FillLoopCond_NoAbort(ix, ln, res) == ix < ln

\* while ((i < len) && (result == TRNG_OK))
FillLoopCond(ix, ln, res) == (ix < ln) /\ (res = TRNG_OK)

\* if ((_initialized != 0U) && (buf != NULL))
FillArgsOk(init, ptr) == (init # 0) /\ ptr

\* ------------------------------------------------------------- the actions

\* A function is entered from the caller, between two calls.
Idle == pc = "idle"

\* trng_begin(): HW_SCE_PowerOn(); err = HW_SCE_McuSpecificInit();
trng_begin ==
    /\ Idle
    /\ \E initOk \in BOOLEAN :
        /\ op' = "begin"
        /\ initialized' = IF initOk THEN 1 ELSE initialized
        /\ result' = IF initOk THEN TRNG_OK ELSE TRNG_NOK
        /\ beganOk' = (beganOk \/ initOk)
        /\ pc' = "done"
        /\ UNCHANGED << outPtr, min, max, len, out, outBlock, buf, hwLog, draws, i,
                        found, err >>

Read128 ==
    /\ Idle
    /\ \E ptr \in BOOLEAN, hw \in HwOutcomes :
        LET r == trng_read128(initialized, ptr, hw)
        IN  /\ op' = "read128"
            /\ outPtr' = ptr
            /\ result' = r.result
            /\ outBlock' = r.block
            /\ hwLog' = IF r.called THEN << LogEntry(hw) >> ELSE << >>
            /\ pc' = "done"
            /\ UNCHANGED << initialized, beganOk, min, max, len, out, buf, draws, i,
                            found, err >>

\* The three scalar functions share their shape: r is what the function
\* computed from the outcome hw.
Scalar(name, r, ptr, hw) ==
    /\ op' = name
    /\ outPtr' = ptr
    /\ result' = r.result
    /\ out' = r.value
    /\ hwLog' = IF r.called THEN << LogEntry(hw) >> ELSE << >>
    /\ pc' = "done"
    /\ UNCHANGED << initialized, beganOk, min, max, len, outBlock, buf, draws, i,
                    found, err >>

Random32 ==
    /\ Idle
    /\ \E ptr \in BOOLEAN, hw \in HwOutcomes :
        Scalar("random32", trng_random32(initialized, ptr, hw), ptr, hw)

Random16 ==
    /\ Idle
    /\ \E ptr \in BOOLEAN, hw \in HwOutcomes :
        Scalar("random16", trng_random16(initialized, ptr, hw), ptr, hw)

Random8 ==
    /\ Idle
    /\ \E ptr \in BOOLEAN, hw \in HwOutcomes :
        Scalar("random8", trng_random8(initialized, ptr, hw), ptr, hw)

\* trng_randomRange, entry: the argument check fails, result stays TRNG_NOK.
RangeReject ==
    /\ Idle
    /\ \E ptr \in BOOLEAN, mn \in MinArgs, mx \in 0 .. UINT32_MAX :
        /\ ~RangeArgsOk(ptr, mn, mx)
        /\ op' = "randomRange"
        /\ outPtr' = ptr
        /\ min' = mn
        /\ max' = mx
        /\ result' = TRNG_NOK
        /\ pc' = "done"
        /\ UNCHANGED << initialized, beganOk, len, out, outBlock, buf, hwLog, draws, i,
                        found, err >>

\* trng_randomRange, range == 0: result = trng_random32(out);
RangeFull ==
    /\ Idle
    /\ \E ptr \in BOOLEAN, mn \in MinArgs, mx \in 0 .. UINT32_MAX :
        /\ RangeArgsOk(ptr, mn, mx)
        /\ RangeOf(mn, mx) = 0
        /\ \E hw \in HwOutcomes :
            LET r == trng_random32(initialized, ptr, hw)
            IN  /\ op' = "randomRange"
                /\ outPtr' = ptr
                /\ min' = mn
                /\ max' = mx
                /\ result' = r.result
                /\ out' = r.value
                /\ hwLog' = IF r.called THEN << LogEntry(hw) >> ELSE << >>
                /\ pc' = "done"
                /\ UNCHANGED << initialized, beganOk, len, outBlock, buf, draws, i,
                                found, err >>

\* trng_randomRange, range != 0: threshold is computed, err = found = 0.
RangeEnter ==
    /\ Idle
    /\ \E ptr \in BOOLEAN, mn \in MinArgs, mx \in 0 .. UINT32_MAX :
        /\ RangeArgsOk(ptr, mn, mx)
        /\ RangeOf(mn, mx) # 0
        /\ op' = "randomRange"
        /\ outPtr' = ptr
        /\ min' = mn
        /\ max' = mx
        /\ result' = TRNG_NOK
        /\ found' = 0
        /\ err' = 0
        /\ pc' = "range_loop"
        /\ UNCHANGED << initialized, beganOk, len, out, outBlock, buf, hwLog, draws, i >>

\* One iteration of the rejection loop: val is a local trng_random32 draw.
RangeIter ==
    /\ pc = "range_loop"
    /\ RangeLoopCond(found, err)
    /\ draws < MaxDraws
    /\ \E hw \in HwOutcomes :
        LET r         == trng_random32(initialized, TRUE, hw)
            range     == RangeOf(min, max)
            threshold == Threshold(range)
        IN  /\ hwLog' = IF r.called THEN Append(hwLog, LogEntry(hw)) ELSE hwLog
            /\ draws' = draws + 1
            /\ IF r.result = TRNG_OK
               THEN IF Accepted(r.value, threshold)
                    THEN /\ out' = RangeValue(min, r.value, range)
                         /\ result' = TRNG_OK
                         /\ found' = 1
                         /\ err' = err
                    ELSE UNCHANGED << out, result, found, err >>
               ELSE /\ err' = 1
                    /\ UNCHANGED << out, result, found >>
            /\ UNCHANGED << initialized, beganOk, pc, op, outPtr, min, max, len, outBlock,
                            buf, i >>

\* The loop condition is false: return result.
RangeExit ==
    /\ pc = "range_loop"
    /\ ~RangeLoopCond(found, err)
    /\ pc' = "done"
    /\ UNCHANGED << initialized, beganOk, op, outPtr, min, max, len, out, outBlock, buf,
                    result, hwLog, draws, i, found, err >>

\* trng_fillRandom, entry: the guard fails, result stays TRNG_NOK.
FillReject ==
    /\ Idle
    /\ \E ptr \in BOOLEAN, ln \in 0 .. MaxLen :
        /\ ~FillArgsOk(initialized, ptr)
        /\ op' = "fillRandom"
        /\ outPtr' = ptr
        /\ len' = ln
        /\ result' = TRNG_NOK
        /\ pc' = "done"
        /\ UNCHANGED << initialized, beganOk, min, max, out, outBlock, buf, hwLog, draws,
                        i, found, err >>

\* trng_fillRandom, entry: i = 0, result = TRNG_OK.
FillEnter ==
    /\ Idle
    /\ \E ptr \in BOOLEAN, ln \in 0 .. MaxLen :
        /\ FillArgsOk(initialized, ptr)
        /\ op' = "fillRandom"
        /\ outPtr' = ptr
        /\ len' = ln
        /\ i' = 0
        /\ result' = TRNG_OK
        /\ pc' = "fill_loop"
        /\ UNCHANGED << initialized, beganOk, min, max, out, outBlock, buf, hwLog, draws,
                        found, err >>

\* One iteration of the chunk loop: one HW_SCE_RNG_Read(tmp).
FillIter ==
    /\ pc = "fill_loop"
    /\ FillLoopCond(i, len, result)
    /\ Len(hwLog) < BufSize
    /\ \E hw \in HwOutcomes :
        /\ hwLog' = Append(hwLog, LogEntry(hw))
        /\ IF ~hw.ok
           THEN /\ result' = TRNG_NOK
                /\ UNCHANGED << buf, i >>
           ELSE LET c == CopyLoop(buf, i, hw.block, 0, Chunk(len, i))
                IN  /\ buf' = c.buf
                    /\ i' = c.i
                    /\ UNCHANGED result
        /\ UNCHANGED << initialized, beganOk, pc, op, outPtr, min, max, len, out, outBlock,
                        draws, found, err >>

\* The loop condition is false: return result.
FillExit ==
    /\ pc = "fill_loop"
    /\ ~FillLoopCond(i, len, result)
    /\ pc' = "done"
    /\ UNCHANGED << initialized, beganOk, op, outPtr, min, max, len, out, outBlock, buf,
                    result, hwLog, draws, i, found, err >>

\* The function has returned; the caller's locals go out of scope (the
\* sketch's loop() declares fresh ones for every call).  Only _initialized
\* outlives a call.
Return ==
    /\ pc = "done"
    /\ pc' = "idle"
    /\ op' = "none"
    /\ outPtr' = FALSE
    /\ min' = 0
    /\ max' = 0
    /\ len' = 0
    /\ out' = Untouched
    /\ outBlock' = << >>
    /\ buf' = EmptyBuf
    /\ result' = TRNG_NOK
    /\ hwLog' = << >>
    /\ draws' = 0
    /\ i' = 0
    /\ found' = 0
    /\ err' = 0
    /\ UNCHANGED << initialized, beganOk >>

Next ==
    \/ trng_begin
    \/ Read128
    \/ Random32
    \/ Random16
    \/ Random8
    \/ RangeReject
    \/ RangeFull
    \/ RangeEnter
    \/ RangeIter
    \/ RangeExit
    \/ FillReject
    \/ FillEnter
    \/ FillIter
    \/ FillExit
    \/ Return

Spec == Init /\ [][Next]_vars

\* ------------------------------------------------------------ the claims

\* The call of function name has returned.
Done(name) == (pc = "done") /\ (op = name)

\* Every hardware read of the log succeeded.
AllOk(log) == \A k \in 1 .. Len(log) : log[k].ok

\* Word 0 of the k-th block read by this call.
Word0(k) == hwLog[k].block[1]

\* max - min + 1 as a mathematical integer (no wrap-around).
Span == (max - min) + 1

ReadOps == { "read128", "random32", "random16", "random8", "randomRange", "fillRandom" }

C3_FillChunks ==
    (Done("fillRandom") /\ (initialized # 0) /\ outPtr /\ AllOk(hwLog))
        => /\ result = TRNG_OK
           /\ Len(hwLog) = (len + (BlockSize - 1)) \div BlockSize
           /\ \A k \in 0 .. (BufSize - 1) :
                buf[k + 1] = IF k < len
                             THEN SrcByte(hwLog[(k \div BlockSize) + 1].block, k % BlockSize)
                             ELSE Untouched

C3_Witness ==
    /\ Done("fillRandom")
    /\ len = 17
    /\ result = TRNG_OK
    /\ Len(hwLog) = 2
    /\ buf[17] = SrcByte(hwLog[2].block, 0)
    /\ buf[17] # SrcByte(hwLog[1].block, 0)
    /\ buf[18] = Untouched

\* C4: no hardware read follows a failed one; if the k-th read of
\* trng_fillRandom fails, the call returns TRNG_NOK, the first 16 * (k - 1)
\* bytes hold the k - 1 blocks read before, and every later byte is as it
\* was before the call.
C4_FillAbort ==
    (op = "fillRandom")
        => /\ \A k \in 1 .. (Len(hwLog) - 1) : hwLog[k].ok
           /\ ((pc = "done") /\ (hwLog # << >>) /\ ~hwLog[Len(hwLog)].ok)
                => /\ result = TRNG_NOK
                   /\ Len(hwLog) <= (len + (BlockSize - 1)) \div BlockSize
                   /\ \A k \in 0 .. (BufSize - 1) :
                        buf[k + 1] = IF k < BlockSize * (Len(hwLog) - 1)
                                     THEN SrcByte(hwLog[(k \div BlockSize) + 1].block,
                                                  k % BlockSize)
                                     ELSE Untouched

C4_Witness ==
    /\ Done("fillRandom")
    /\ len = 50
    /\ Len(hwLog) = 3
    /\ ~hwLog[3].ok
    /\ result = TRNG_NOK
    /\ buf[32] # Untouched
    /\ buf[33] = Untouched

\* C5: a hardware block read is made only after some trng_begin returned
\* success; a read, sample or fill function called before that returns
\* TRNG_NOK, makes no hardware read and writes nothing, and the rejection
\* loop of trng_randomRange makes a single (failed) draw.
C5_ReadinessGate ==
    /\ (hwLog # << >>) => beganOk
    /\ ((op = "randomRange") /\ ~beganOk) => (draws <= 1)
    /\ ((pc = "done") /\ (op \in ReadOps) /\ ~beganOk)
        => /\ result = TRNG_NOK
           /\ hwLog = << >>
           /\ out = Untouched
           /\ outBlock = << >>
           /\ buf = EmptyBuf

C5_Witness ==
    /\ ~beganOk
    /\ Done("randomRange")
    /\ outPtr
    /\ min < max
    /\ draws = 1
    /\ err = 1
    /\ result = TRNG_NOK

\* C6: for min > max, trng_randomRange returns failure, makes no hardware
\* read (it never enters the rejection loop) and leaves *out unchanged,
\* whatever the readiness state.
C6_InvalidRange ==
    ((op = "randomRange") /\ (min > max))
        => /\ pc = "done"
           /\ result = TRNG_NOK
           /\ hwLog = << >>
           /\ draws = 0
           /\ out = Untouched

C6_Witness ==
    /\ Done("randomRange")
    /\ initialized # 0
    /\ outPtr
    /\ min = 5
    /\ max = 3
    /\ result = TRNG_NOK

\* C7, as stated: for min = 0 and max = UINT32_MAX, trng_randomRange never
\* enters the rejection loop, makes exactly one hardware read and, when it
\* succeeds, returns TRNG_OK with *out equal to word 0 of the block.  The
\* non-null out that "*out" presupposes is granted; the readiness state is
\* left open, as in the claim.
C7_Original ==
    ((op = "randomRange") /\ (min = 0) /\ (max = UINT32_MAX) /\ outPtr)
        => /\ pc = "done"
           /\ draws = 0
           /\ Len(hwLog) = 1
           /\ hwLog[1].ok => ((result = TRNG_OK) /\ (out = Word0(1)))

\* C7, amended: for min = 0 and max = UINT32_MAX, trng_randomRange never
\* enters the rejection loop; when trng_begin has succeeded and out is
\* non-null it makes exactly one hardware read and, when that read succeeds,
\* returns TRNG_OK with *out equal to word 0 of the block; otherwise it
\* makes no hardware read and returns TRNG_NOK.
C7_FullRange ==
    ((op = "randomRange") /\ (min = 0) /\ (max = UINT32_MAX))
        => /\ pc = "done"
           /\ draws = 0
           /\ IF (initialized # 0) /\ outPtr
              THEN /\ Len(hwLog) = 1
                   /\ hwLog[1].ok => ((result = TRNG_OK) /\ (out = Word0(1)))
                   /\ ~hwLog[1].ok => ((result = TRNG_NOK) /\ (out = Untouched))
              ELSE /\ hwLog = << >>
                   /\ result = TRNG_NOK
                   /\ out = Untouched

C7_Witness ==
    /\ Done("randomRange")
    /\ initialized # 0
    /\ min = 0
    /\ max = UINT32_MAX
    /\ result = TRNG_OK
    /\ Len(hwLog) = 1
    /\ out = UINT32_MAX

\* C8: a successful trng_random32, trng_random16 or trng_random8 call makes
\* exactly one hardware block read, and returns word 0 of that block, its
\* low 16 bits or its low 8 bits.
C8_ScalarDraws ==
    ((pc = "done") /\ (op \in { "random32", "random16", "random8" }) /\ (result = TRNG_OK))
        => /\ Len(hwLog) = 1
           /\ hwLog[1].ok
           /\ (op = "random32") => (out = Word0(1))
           /\ (op = "random16") => (out = Word0(1) % Pow16)
           /\ (op = "random8") => (out = Word0(1) % Pow8)

C8_Witness ==
    /\ Done("random16")
    /\ result = TRNG_OK
    /\ Len(hwLog) = 1
    /\ out # Word0(1)

C10_Body ==
    LET threshold == Threshold(RangeOf(min, max))
        n         == Len(hwLog)
    IN  /\ n = draws
        /\ \A k \in 1 .. (n - 1) : hwLog[k].ok /\ ~Accepted(Word0(k), threshold)
        /\ (pc = "done")
            => /\ n >= 1
               /\ IF hwLog[n].ok
                  THEN Accepted(Word0(n), threshold) /\ (result = TRNG_OK)
                  ELSE (result = TRNG_NOK) /\ (out = Untouched)
               /\ (min = max) => (n = 1)

====
